---- MODULE Spec2Model ----
(***************************************************************************)
(* Model of the core of estate_docs: the question-logic evaluator, the     *)
(* flow materialization and the session navigation state machine built on  *)
(* them (backend/src/services/session_service.py), the persistence of      *)
(* answer rows by concurrent requests, and the template merge engine       *)
(* (backend/src/services/document_service.py).                             *)
(***************************************************************************)
EXTENDS Integers, Sequences, FiniteSets, TLC

VARIABLES
    question_logic,     \* QuestionGroup.question_logic handed to the evaluator
    existing_answers,   \* question id -> answer_value of the evaluated session
    shown,              \* list returned by _get_questions_from_logic
    ql_log,             \* tree positions of the items the evaluator logged
    ql_pc,              \* "ready" before the evaluator ran, "done" after
    flow_logic,         \* DocumentFlow.flow_logic handed to the materializer
    flow_answers,       \* question id -> answer_value (flow materialization)
    ordered,            \* list returned by _get_groups_from_flow_logic
    fl_log,             \* tree positions of the steps the materializer visited
    fl_pc,              \* "ready" before the materializer ran, "done" after
    question_groups,    \* question_groups table: id -> row
    flows,              \* document_flows table: id -> row
    session,            \* the DocumentSession row
    session_answers,    \* SessionAnswer rows of the session: question id -> value
    now,                \* number of datetime.utcnow() readings so far
    response,           \* SessionQuestionsResponse of the last get_session_questions
    answer_rows,        \* session_answers table: the committed rows of one session
    requests,           \* request -> its position in the answer upsert loop
    last_written,       \* question id -> value of the latest committed write
    template,           \* template_content handed to _merge_template
    answer_map,         \* answer_map handed to _merge_template
    merged,             \* merged_content returned by _merge_template
    mt_pc,              \* "ready" before the merge ran, "done" after
    calls               \* call -> the locals of a _merge_template call in progress

ql_vars == <<question_logic, existing_answers, shown, ql_log, ql_pc>>
fl_vars == <<flow_logic, flow_answers, ordered, fl_log, fl_pc>>
db_vars == <<question_groups, flows>>
ss_vars == <<db_vars, session, session_answers, now, response>>
up_vars == <<answer_rows, requests, last_written>>
mt_vars == <<template, answer_map, merged, mt_pc, calls>>
vars == <<ql_vars, fl_vars, ss_vars, up_vars, mt_vars>>

----------------------------------------------------------------------------
(* Bounds *)

\* largest number of nodes (leaves and conditionals) of a generated logic tree
MaxNodes == 3
\* largest number of datetime.utcnow() readings of one behaviour
MaxTime == 2
\* largest number of rows of the session_answers table of one behaviour
MaxRows == 3
\* largest number of tokens of a generated template
MaxTokens == 3
MaxCounters == 5
MaxCallTokens == 3

----------------------------------------------------------------------------
(* Stored data the evaluators read *)

\* SessionAnswer row absent for the question
NoAnswer == "NO_ROW"
\* JSON key absent / Python None
None == 0

\* rows of the questions table: q1 and q2 are active, q3 is soft-deleted;
\* id 4 is referenced by logic trees but has no row
Questions ==
    [q \in {1, 2, 3} |->
        CASE q = 1 -> [question_group_id |-> 1, identifier |-> "a",
                       display_order |-> 2, is_active |-> TRUE]
          [] q = 2 -> [question_group_id |-> 1, identifier |-> "b",
                       display_order |-> 1, is_active |-> TRUE]
          [] q = 3 -> [question_group_id |-> 1, identifier |-> "c",
                       display_order |-> 3, is_active |-> FALSE]]

QuestionIds == DOMAIN Questions
Identifiers == {Questions[q].identifier : q \in QuestionIds}

\* answer values a client can store
AnswerValues == {"", "yes"}

\* membership test of a Python list
InList(x, list) == \E i \in 1..Len(list) : list[i] = x

\* max(a, b) and min(a, b)
Max2(a, b) == IF a >= b THEN a ELSE b
Min2(a, b) == IF a <= b THEN a ELSE b

\* math.ceil(n / d) for n >= 0, d >= 1
CeilDiv(n, d) == (n + d - 1) \div d

RECURSIVE SetToSortedSeq(_, _)
\* the elements of S as a sequence ascending by key, ties by id
SetToSortedSeq(S, key) ==
    IF S = {} THEN <<>>
    ELSE LET m == CHOOSE x \in S :
                    \A y \in S : key[x] < key[y] \/ (key[x] = key[y] /\ x <= y)
         IN <<m>> \o SetToSortedSeq(S \ {m}, key)

----------------------------------------------------------------------------
(* Question-logic trees (QuestionGroup.question_logic) *)

\* {type: 'question', questionId, stopFlow}
QuestionItem(qid, stop) ==
    [type |-> "question", questionId |-> qid, stopFlow |-> stop,
     ifIdentifier |-> "", operator |-> "", value |-> "",
     nestedItems |-> <<>>, endFlow |-> FALSE, nextGroupId |-> None]

\* {type: 'conditional', conditional: {ifIdentifier, operator, value,
\*  nestedItems, endFlow, nextGroupId}}
ConditionalItem(ident, op, val, nested, endf, next) ==
    [type |-> "conditional", questionId |-> None, stopFlow |-> FALSE,
     ifIdentifier |-> ident, operator |-> op, value |-> val,
     nestedItems |-> nested, endFlow |-> endf, nextGroupId |-> next]

\* db.query(Question).filter(id == question_id, is_active == True).first()
ActiveQuestion(qid) ==
    qid \in QuestionIds /\ Questions[qid].is_active

\* answer_by_identifier: the rows are visited in id order, a later row of the
\* same identifier overwrites an earlier one
AnswerByIdentifier(answers) ==
    [id \in Identifiers |->
        LET qs == {q \in QuestionIds :
                      Questions[q].identifier = id /\ answers[q] # NoAnswer}
        IN IF qs = {} THEN NoAnswer
           ELSE answers[CHOOSE q \in qs : \A r \in qs : r <= q]]

\* identifier and identifier in answer_by_identifier
HasAnswer(abi, ident) ==
    ident # "" /\ ident \in DOMAIN abi /\ abi[ident] # NoAnswer

\* the empty-field test left out
FieldEmptyIgnored(actual) == FALSE

\* actual_value is None or actual_value == ''
FieldEmpty(actual) == actual = ""

\* operator == 'not_equals' compares with !=, every other operator with ==
ConditionMet(operator, actual, expected) ==
    IF operator = "not_equals" THEN actual # expected ELSE actual = expected

\* the stop flag left unread
StopFlagIgnored(item) == FALSE

\* item.get('stopFlow')
StopFlag(item) == item.stopFlow

\* the end flag left unread
EndFlagIgnored(item) == FALSE

\* cond.get('endFlow')
EndFlag(item) == item.endFlow

\* the append without the 'not in questions' test
AppendQuestionUnguarded(questions, qid) ==
    IF qid # None /\ ActiveQuestion(qid)
    THEN Append(questions, qid) ELSE questions

\* if question and question not in questions: questions.append(question)
AppendQuestion(questions, qid) ==
    IF qid # None /\ ActiveQuestion(qid) /\ ~InList(qid, questions)
    THEN Append(questions, qid) ELSE questions

RECURSIVE process_logic_items(_, _, _, _, _)
\* items from position i on, at tree position path; st carries the questions
\* collected so far and the log of visited items (one logger.info per item);
\* cont is the function's return value (False: a stop flag was met)
process_logic_items(items, i, path, st, abi) ==
    IF i > Len(items) THEN [questions |-> st.questions, log |-> st.log, cont |-> TRUE]
    ELSE
      LET item == items[i]
          here == Append(path, i)
          seen == [questions |-> st.questions, log |-> Append(st.log, here)]
      IN
      IF item.type = "question" THEN
          LET added == [seen EXCEPT !.questions = AppendQuestion(@, item.questionId)]
          IN IF StopFlag(item)
             THEN [questions |-> added.questions, log |-> added.log, cont |-> FALSE]
             ELSE process_logic_items(items, i + 1, path, added, abi)
      ELSE IF item.type = "conditional" THEN
          IF HasAnswer(abi, item.ifIdentifier)
          THEN
            LET actual == abi[item.ifIdentifier] IN
            IF FieldEmpty(actual)
            THEN process_logic_items(items, i + 1, path, seen, abi)
            ELSE IF ConditionMet(item.operator, actual, item.value)
            THEN
              LET r == IF item.nestedItems # <<>>
                       THEN process_logic_items(item.nestedItems, 1, here, seen, abi)
                       ELSE [questions |-> seen.questions, log |-> seen.log,
                             cont |-> TRUE]
              IN IF ~r.cont THEN r
                 ELSE IF EndFlag(item)
                 THEN [questions |-> r.questions, log |-> r.log, cont |-> FALSE]
                 ELSE process_logic_items(items, i + 1, path,
                          [questions |-> r.questions, log |-> r.log], abi)
            ELSE process_logic_items(items, i + 1, path, seen, abi)
          ELSE process_logic_items(items, i + 1, path, seen, abi)
      ELSE process_logic_items(items, i + 1, path, seen, abi)

\* _get_questions_from_logic(db, group, existing_answers), the group having
\* id gid and question_logic logic
GetQuestionsFromLogic(gid, logic, answers) ==
    IF logic = <<>>
    THEN LET qs == {q \in QuestionIds :
                       Questions[q].question_group_id = gid /\ Questions[q].is_active}
         IN [questions |-> SetToSortedSeq(qs, [q \in qs |-> Questions[q].display_order]),
             log |-> <<>>, cont |-> TRUE]
    ELSE process_logic_items(logic, 1, <<>>,
             [questions |-> <<>>, log |-> <<>>], AnswerByIdentifier(answers))

----------------------------------------------------------------------------
(* Flow-logic trees (DocumentFlow.flow_logic) *)

\* rows of the question_groups table read by the materializer: groups 1 and 2
\* are active, group 3 is soft-deleted; id 4 has no row
FlowGroups ==
    [g \in {1, 2, 3} |-> [is_active |-> g # 3]]

\* {type: 'group', groupId}
GroupStep(gid) ==
    [type |-> "group", groupId |-> gid, identifier |-> "", value |-> "",
     targetGroupId |-> None, nestedSteps |-> <<>>]

\* {type: 'conditional', conditional: {identifier, value, targetGroupId,
\*  nestedSteps}}
ConditionalStep(ident, val, target, nested) ==
    [type |-> "conditional", groupId |-> None, identifier |-> ident,
     value |-> val, targetGroupId |-> target, nestedSteps |-> nested]

\* db.query(QuestionGroup).filter(id == gid, is_active == True).first()
ActiveGroup(groups, gid) ==
    gid \in DOMAIN groups /\ groups[gid].is_active

\* if group and group not in groups: groups.append(group)
AppendGroup(groups, list, gid) ==
    IF gid # None /\ ActiveGroup(groups, gid) /\ ~InList(gid, list)
    THEN Append(list, gid) ELSE list

\* identifier in answer_map and answer_map[identifier] == expected_value
FlowConditionMet(amap, ident, expected) ==
    HasAnswer(amap, ident) /\ amap[ident] = expected

RECURSIVE process_steps(_, _, _, _, _, _)
\* steps from position i on, at tree position path; st carries the groups
\* collected so far and the positions of the steps visited
process_steps(steps, i, path, st, amap, groups) ==
    IF i > Len(steps) THEN st
    ELSE
      LET step == steps[i]
          here == Append(path, i)
          seen == [groups |-> st.groups, log |-> Append(st.log, here)]
      IN
      IF step.type = "group" /\ step.groupId # None THEN
          process_steps(steps, i + 1, path,
              [seen EXCEPT !.groups = AppendGroup(groups, @, step.groupId)],
              amap, groups)
      ELSE IF step.type = "conditional" THEN
          IF FlowConditionMet(amap, step.identifier, step.value)
          THEN
            LET target == [seen EXCEPT
                              !.groups = AppendGroup(groups, @, step.targetGroupId)]
                after == IF step.nestedSteps # <<>>
                         THEN process_steps(step.nestedSteps, 1, here, target,
                                            amap, groups)
                         ELSE target
            IN process_steps(steps, i + 1, path, after, amap, groups)
          ELSE process_steps(steps, i + 1, path, seen, amap, groups)
      ELSE process_steps(steps, i + 1, path, seen, amap, groups)

\* _get_groups_from_flow_logic(db, flow_logic, session_id)
GetGroupsFromFlowLogic(logic, answers, groups) ==
    process_steps(logic, 1, <<>>, [groups |-> <<>>, log |-> <<>>],
                  AnswerByIdentifier(answers), groups)

----------------------------------------------------------------------------
(* Session navigation (SessionService) *)

\* ids of the rows of the question_groups table
GroupIds == {1, 2, 3}

\* no DocumentSession row yet
NoSession ==
    [exists |-> FALSE, flow_id |-> None, current_group_id |-> None,
     is_completed |-> FALSE, completed_at |-> None]

\* no get_session_questions response yet
NoResponse ==
    [kind |-> "none", current_group_id |-> None, current_group_index |-> 0,
     total_groups |-> 0, is_last_group |-> FALSE, can_go_back |-> FALSE,
     questions |-> <<>>, current_page |-> 0, total_pages |-> 0]

\* answer_by_question_id = {a.question_id: a.answer_value for a in answers}
AnswerByQuestionId(answers) ==
    [q \in QuestionIds |->
        LET at == {i \in 1..Len(answers) : answers[i].question_id = q}
        IN IF at = {} THEN NoAnswer
           ELSE answers[CHOOSE i \in at : \A j \in at : j <= i].answer_value]

RECURSIVE Upsert(_, _)
\* the rows after each answer of the list was updated or inserted in turn
Upsert(rows, answers) ==
    IF answers = <<>> THEN rows
    ELSE Upsert([rows EXCEPT ![Head(answers).question_id] = Head(answers).answer_value],
                Tail(answers))

\* current_group.questions: the group's questions in display_order
GroupQuestions(gid) ==
    LET qs == {q \in QuestionIds : Questions[q].question_group_id = gid}
    IN SetToSortedSeq(qs, [q \in qs |-> Questions[q].display_order])

RECURSIVE MatchQuestions(_, _, _, _)
\* the loop over current_group.questions for one conditional: the
\* nextGroupId to return, or None when the loop ends or breaks without one
MatchQuestions(qs, j, cond, submitted) ==
    IF j > Len(qs) THEN None
    ELSE IF Questions[qs[j]].identifier # cond.ifIdentifier
    THEN MatchQuestions(qs, j + 1, cond, submitted)
    ELSE LET actual == submitted[qs[j]] IN
         IF actual = NoAnswer \/ FieldEmpty(actual) THEN None
         ELSE IF ConditionMet(cond.operator, actual, cond.value)
         THEN cond.nextGroupId
         ELSE MatchQuestions(qs, j + 1, cond, submitted)

RECURSIVE ConditionalNextGroup(_, _, _, _)
\* the loop over the top-level items of current_group.question_logic
ConditionalNextGroup(items, i, gid, submitted) ==
    IF i > Len(items) THEN None
    ELSE IF items[i].type = "conditional"
    THEN LET n == MatchQuestions(GroupQuestions(gid), 1, items[i], submitted)
         IN IF n # None THEN n
            ELSE ConditionalNextGroup(items, i + 1, gid, submitted)
    ELSE ConditionalNextGroup(items, i + 1, gid, submitted)

\* filter(display_order > current.display_order).order_by(display_order)
\* .first(): any row of the least display_order, None when there is no row
NextByDisplayOrder(groups, gid) ==
    LET later == {g \in DOMAIN groups :
                     groups[g].display_order > groups[gid].display_order}
    IN IF later = {} THEN {None}
       ELSE {g \in later :
                \A h \in later : groups[g].display_order <= groups[h].display_order}

\* _get_next_group(db, session, current_group, answers): the possible results
GetNextGroup(groups, gid, answers) ==
    LET n == ConditionalNextGroup(groups[gid].question_logic, 1, gid,
                                  AnswerByQuestionId(answers))
    IN IF n # None THEN {n} ELSE NextByDisplayOrder(groups, gid)

\* the ordered group list of navigate_session and get_session_questions:
\* the flow's materialized groups, else the current group alone
OrderedGroups(ses, groups, flowrows, answers) ==
    LET fromflow ==
            IF ses.flow_id # None /\ ses.flow_id \in DOMAIN flowrows
               /\ flowrows[ses.flow_id].flow_logic # <<>>
            THEN GetGroupsFromFlowLogic(flowrows[ses.flow_id].flow_logic,
                                        answers, groups).groups
            ELSE <<>>
    IN IF fromflow = <<>> /\ ses.current_group_id # None
          /\ ses.current_group_id \in DOMAIN groups
       THEN <<ses.current_group_id>>
       ELSE fromflow

\* [i, found]: the index of the session's current group in the list (from 0),
\* 0 when it is not in the list
CurrentIndex(list, gid) ==
    LET at == {i \in 1..Len(list) : list[i] = gid}
    IN IF at = {} THEN [index |-> 0, found |-> FALSE]
       ELSE [index |-> (CHOOSE i \in at : \A j \in at : i <= j) - 1, found |-> TRUE]

\* a transition that reopens a completed session when it moves to a group
AdvanceReopens(ses, next, t) ==
    IF next # None
    THEN [ses EXCEPT !.current_group_id = next, !.is_completed = FALSE,
                     !.completed_at = None]
    ELSE [ses EXCEPT !.is_completed = TRUE, !.completed_at = t]

\* the session after submit_answers chose next (None: completed at time t)
Advance(ses, next, t) ==
    IF next # None
    THEN [ses EXCEPT !.current_group_id = next]
    ELSE [ses EXCEPT !.is_completed = TRUE, !.completed_at = t]

\* a page slice that starts one page too far
PaginatedQuestionsShifted(visible, page, questions_per_page) ==
    SubSeq(visible, page * questions_per_page + 1,
           Min2((page + 1) * questions_per_page, Len(visible)))

\* questions_to_display[start_idx:end_idx] of the page
PaginatedQuestions(visible, page, questions_per_page) ==
    LET start_idx == (page - 1) * questions_per_page
    IN SubSeq(visible, start_idx + 1,
              Min2(start_idx + questions_per_page, Len(visible)))

\* navigate_session, direction 'forward': the next entry of the list, or None
\* on its last entry
ForwardTarget(list, gid) ==
    LET idx == CurrentIndex(list, gid).index
    IN IF idx < Len(list) - 1 THEN list[idx + 2] ELSE None

\* a backward step that returns to the head of the list instead of the
\* previous entry
BackwardTargetFirst(list, gid) ==
    IF list # <<>> THEN list[1] ELSE gid

\* navigate_session, direction 'backward': the previous entry of the list, or
\* the current group at index 0
BackwardTarget(list, gid) ==
    LET idx == CurrentIndex(list, gid).index
    IN IF idx > 0 THEN list[idx] ELSE gid

----------------------------------------------------------------------------
(* Inputs of the two evaluators *)

\* operators a stored conditional can carry; "contains" is not one the
\* evaluators know
Operators == {"equals", "not_equals", "contains"}
\* expected values of a stored conditional
ExpectedValues == {"", "yes"}
\* question ids used by generated leaves
LeafQuestionIds == {1, 2, 3}
\* group ids used by generated steps
StepGroupIds == {1, 2, 3}

RECURSIVE LogicForests(_, _, _)
RECURSIVE LogicNodes(_, _, _)
\* the items with exactly k nodes whose conditionals test "a" with op and val
LogicNodes(k, op, val) ==
    IF k = 1
    THEN {QuestionItem(q, s) : q \in LeafQuestionIds, s \in BOOLEAN}
         \cup {ConditionalItem("a", op, val, <<>>, e, None) : e \in BOOLEAN}
    ELSE {ConditionalItem("a", op, val, f, e, None) :
             f \in LogicForests(k - 1, op, val), e \in BOOLEAN}

\* the item lists with exactly n nodes in all
LogicForests(n, op, val) ==
    IF n = 0 THEN {<<>>}
    ELSE UNION {{<<x>> \o f : x \in LogicNodes(k, op, val),
                              f \in LogicForests(n - k, op, val)} : k \in 1..n}

\* hand-written trees: the examples of the specification and of the tests,
\* a reference to a question without a row, mixed operators, depth 3
ExampleLogics ==
    {<<QuestionItem(1, FALSE), QuestionItem(4, TRUE), QuestionItem(2, FALSE)>>,
     <<ConditionalItem("a", "equals", "yes",
          <<QuestionItem(1, TRUE), QuestionItem(2, FALSE)>>, FALSE, None),
       QuestionItem(2, FALSE)>>,
     <<ConditionalItem("a", "equals", "yes",
          <<ConditionalItem("a", "not_equals", "",
               <<QuestionItem(2, TRUE), QuestionItem(1, FALSE)>>, FALSE, None),
            QuestionItem(1, FALSE)>>, FALSE, None),
       QuestionItem(1, FALSE)>>,
     <<ConditionalItem("a", "equals", "yes",
          <<QuestionItem(2, FALSE)>>, FALSE, None),
       ConditionalItem("a", "not_equals", "no",
          <<QuestionItem(2, FALSE), QuestionItem(1, FALSE)>>, TRUE, None),
       QuestionItem(3, FALSE)>>}

LogicTrees ==
    UNION {LogicForests(n, op, val) :
              n \in 0..MaxNodes, op \in Operators, val \in ExpectedValues}
    \cup ExampleLogics

RECURSIVE FlowForests(_, _)
RECURSIVE FlowNodes(_, _)
\* the steps with exactly k nodes whose conditionals test "a" against val
FlowNodes(k, val) ==
    IF k = 1
    THEN {GroupStep(g) : g \in StepGroupIds}
         \cup {ConditionalStep("a", val, t, <<>>) : t \in StepGroupIds \cup {None}}
    ELSE {ConditionalStep("a", val, t, f) :
             f \in FlowForests(k - 1, val), t \in StepGroupIds \cup {None}}

\* the step lists with exactly n nodes in all
FlowForests(n, val) ==
    IF n = 0 THEN {<<>>}
    ELSE UNION {{<<x>> \o f : x \in FlowNodes(k, val),
                              f \in FlowForests(n - k, val)} : k \in 1..n}

FlowTrees ==
    UNION {FlowForests(n, val) : n \in 0..MaxNodes, val \in ExpectedValues}

\* no SessionAnswer row yet
NoAnswers == [q \in QuestionIds |-> NoAnswer]

\* the evaluator is not part of the behaviour
IdleQL ==
    /\ question_logic = <<>>
    /\ existing_answers = NoAnswers
    /\ shown = <<>>
    /\ ql_log = <<>>
    /\ ql_pc = "idle"

\* the materializer is not part of the behaviour
IdleFL ==
    /\ flow_logic = <<>>
    /\ flow_answers = NoAnswers
    /\ ordered = <<>>
    /\ fl_log = <<>>
    /\ fl_pc = "idle"

\* no session is part of the behaviour
IdleSession ==
    /\ question_groups = [g \in GroupIds |->
            [display_order |-> 0, is_active |-> TRUE, question_logic |-> <<>>]]
    /\ flows = [f \in {1} |->
            [flow_logic |-> <<>>, starting_group_id |-> None, is_active |-> TRUE]]
    /\ session = NoSession
    /\ session_answers = NoAnswers
    /\ now = 0
    /\ response = NoResponse

\* the requests that write answer rows at the same time
Requests == {1, 2}

\* a request that is not inside save_answers or submit_answers
IdleRequest ==
    [pc |-> "idle", answers |-> <<>>, i |-> 0, updates |-> <<>>, inserts |-> <<>>]

\* no request writes answer rows
IdleUP ==
    /\ answer_rows = <<>>
    /\ requests = [r \in Requests |-> IdleRequest]
    /\ last_written = [q \in QuestionIds |-> NoAnswer]

\* no template is merged
\* the _merge_template calls that can run at the same time
Calls == {1, 2}

\* no call in progress
IdleCall == [pc |-> "idle", template |-> <<>>, text |-> <<>>, counter |-> 1]

IdleMT ==
    /\ template = <<>>
    /\ answer_map = <<>>
    /\ merged = <<>>
    /\ mt_pc = "idle"
    /\ calls = [c \in Calls |-> IdleCall]

----------------------------------------------------------------------------
(* The question-logic evaluator applied to a stored tree *)

InitQL ==
    /\ question_logic \in LogicTrees
    /\ existing_answers = NoAnswers
    /\ shown = <<>>
    /\ ql_log = <<>>
    /\ ql_pc = "ready"
    /\ IdleFL
    /\ IdleSession
    /\ IdleUP
    /\ IdleMT

\* save_answers: upsert the answer of question 1 (identifier "a")
SaveAnswerQL(v) ==
    /\ ql_pc \in {"ready", "done"}
    /\ existing_answers' = [existing_answers EXCEPT ![1] = v]
    /\ shown' = <<>>
    /\ ql_log' = <<>>
    /\ ql_pc' = "ready"
    /\ UNCHANGED <<question_logic, fl_vars, ss_vars, up_vars, mt_vars>>

\* get_session_questions: questions_to_display = _get_questions_from_logic(...)
EvaluateQL ==
    /\ ql_pc = "ready"
    /\ LET r == GetQuestionsFromLogic(1, question_logic, existing_answers)
       IN /\ shown' = r.questions
          /\ ql_log' = r.log
    /\ ql_pc' = "done"
    /\ UNCHANGED <<question_logic, existing_answers, fl_vars, ss_vars, up_vars, mt_vars>>

NextQL ==
    \/ \E v \in AnswerValues : SaveAnswerQL(v)
    \/ EvaluateQL

SpecQL == InitQL /\ [][NextQL]_vars

----------------------------------------------------------------------------
(* The flow materialization applied to a stored tree *)

InitFL ==
    /\ flow_logic \in FlowTrees
    /\ flow_answers = NoAnswers
    /\ ordered = <<>>
    /\ fl_log = <<>>
    /\ fl_pc = "ready"
    /\ IdleQL
    /\ IdleSession
    /\ IdleUP
    /\ IdleMT

\* save_answers: upsert the answer of question 1 (identifier "a")
SaveAnswerFL(v) ==
    /\ fl_pc \in {"ready", "done"}
    /\ flow_answers' = [flow_answers EXCEPT ![1] = v]
    /\ ordered' = <<>>
    /\ fl_log' = <<>>
    /\ fl_pc' = "ready"
    /\ UNCHANGED <<flow_logic, ql_vars, ss_vars, up_vars, mt_vars>>

\* ordered_groups = _get_groups_from_flow_logic(db, flow.flow_logic, session_id)
MaterializeFL ==
    /\ fl_pc = "ready"
    /\ LET r == GetGroupsFromFlowLogic(flow_logic, flow_answers, FlowGroups)
       IN /\ ordered' = r.groups
          /\ fl_log' = r.log
    /\ fl_pc' = "done"
    /\ UNCHANGED <<flow_logic, flow_answers, ql_vars, ss_vars, up_vars, mt_vars>>

NextFL ==
    \/ \E v \in AnswerValues : SaveAnswerFL(v)
    \/ MaterializeFL

SpecFL == InitFL /\ [][NextFL]_vars

----------------------------------------------------------------------------
(* The session state machine *)

\* question_logic trees the first group is stored with
SessionLogics ==
    {<<>>,
     <<QuestionItem(1, FALSE),
       ConditionalItem("a", "equals", "yes", <<QuestionItem(2, FALSE)>>, FALSE, 3)>>,
     <<ConditionalItem("a", "contains", "yes", <<>>, FALSE, 3),
       QuestionItem(1, FALSE)>>,
     <<ConditionalItem("a", "equals", "yes",
          <<ConditionalItem("a", "not_equals", "no", <<>>, FALSE, 3)>>,
          FALSE, None)>>}

\* flow_logic trees the flow is stored with
SessionFlows ==
    {<<>>,
     <<GroupStep(1), GroupStep(2), GroupStep(3)>>,
     <<GroupStep(2), GroupStep(1)>>,
     <<GroupStep(1), ConditionalStep("a", "yes", 3, <<GroupStep(2)>>)>>}

\* display_order columns of the question groups: every ordering of three
\* groups, ties included, is an assignment of these values
DisplayOrders == {0, 1, 2}

\* one assignment for every ordering of the groups, ties included: the
\* values in use are 0..k (only comparisons of display_order are ever made)
DisplayOrderings ==
    {d \in [GroupIds -> DisplayOrders] :
        \A v \in DisplayOrders :
           (\E g \in GroupIds : d[g] = v) =>
              \A w \in DisplayOrders : w < v => \E h \in GroupIds : d[h] = w}

\* the stored (question_logic of group 1, flow_logic of the flow) pairs: every
\* flow with a plain first group, every question logic under a flow without
\* logic, and one pair with both
StoredLogics ==
    {<<l, fl>> \in SessionLogics \X SessionFlows :
        \/ l = <<>>
        \/ fl = <<>>
        \/ l[1].type = "question" /\ Len(fl) = 3}

\* is_active columns of the question groups: all active, or group 3 soft-deleted
ActiveChoices ==
    {[g \in GroupIds |-> TRUE], [g \in GroupIds |-> g # 3]}

\* answer lists a request can carry
AnswerLists ==
    {<<>>} \cup {<<[question_id |-> 1, answer_value |-> v]>> : v \in AnswerValues}

\* page and questions_per_page values a request can carry: the endpoint
\* accepts any integer page
PageInputs == {0, 1, 2}
PerPageInputs == {1, 5}

Init ==
    /\ \E d \in DisplayOrderings, a \in ActiveChoices, lf \in StoredLogics :
          /\ question_groups = [g \in GroupIds |->
                [display_order |-> d[g], is_active |-> a[g],
                 question_logic |-> IF g = 1 THEN lf[1] ELSE <<>>]]
          /\ flows = [f \in {1} |->
                [flow_logic |-> lf[2], starting_group_id |-> None,
                 is_active |-> TRUE]]
    /\ session = NoSession
    /\ session_answers = NoAnswers
    /\ now = 0
    /\ response = NoResponse
    /\ IdleQL
    /\ IdleFL
    /\ IdleUP
    /\ IdleMT

\* SessionService.create_session
create_session(flow_id, starting_group_id) ==
    /\ ~session.exists
    /\ flow_id # None => (flow_id \in DOMAIN flows /\ flows[flow_id].is_active)
    /\ LET start == IF flow_id # None /\ flows[flow_id].starting_group_id # None
                    THEN flows[flow_id].starting_group_id
                    ELSE starting_group_id
           active == {g \in GroupIds : question_groups[g].is_active}
           first == {g \in active : \A h \in active :
                        question_groups[g].display_order
                            <= question_groups[h].display_order}
       IN \E g \in (IF start # None THEN {start} ELSE first) :
             session' = [exists |-> TRUE, flow_id |-> flow_id,
                         current_group_id |-> g, is_completed |-> FALSE,
                         completed_at |-> None]
    /\ response' = NoResponse
    /\ UNCHANGED <<db_vars, session_answers, now, ql_vars, fl_vars, up_vars, mt_vars>>

\* SessionService.submit_answers
submit_answers(answers) ==
    /\ session.exists
    /\ session.current_group_id \in DOMAIN question_groups
    /\ session_answers' = Upsert(session_answers, answers)
    /\ \E next \in GetNextGroup(question_groups, session.current_group_id, answers) :
          /\ next = None => now < MaxTime
          /\ session' = Advance(session, next, now + 1)
          /\ now' = IF next = None THEN now + 1 ELSE now
    /\ response' = NoResponse
    /\ UNCHANGED <<db_vars, ql_vars, fl_vars, up_vars, mt_vars>>

\* SessionService.save_answers
save_answers(answers) ==
    /\ session.exists
    /\ session_answers' = Upsert(session_answers, answers)
    /\ response' = NoResponse
    /\ UNCHANGED <<db_vars, session, now, ql_vars, fl_vars, up_vars, mt_vars>>

\* SessionService.navigate_session
navigate_session(direction, answers) ==
    /\ session.exists
    /\ session_answers' = Upsert(session_answers, answers)
    /\ LET list == OrderedGroups(session, question_groups, flows, session_answers')
           target == ForwardTarget(list, session.current_group_id)
       IN IF direction = "forward"
          THEN /\ target = None => now < MaxTime
               /\ session' = Advance(session, target, now + 1)
               /\ now' = IF target = None THEN now + 1 ELSE now
          ELSE /\ session' = [session EXCEPT !.current_group_id =
                                  BackwardTarget(list, session.current_group_id)]
               /\ now' = now
    /\ response' = NoResponse
    /\ UNCHANGED <<db_vars, ql_vars, fl_vars, up_vars, mt_vars>>

\* SessionService.get_session_questions
get_session_questions(page, questions_per_page) ==
    /\ session.exists
    /\ LET list == OrderedGroups(session, question_groups, flows, session_answers)
           at == CurrentIndex(list, session.current_group_id)
           current == IF at.found THEN session.current_group_id ELSE list[1]
           visible == GetQuestionsFromLogic(current,
                          question_groups[current].question_logic,
                          session_answers).questions
           total_pages == Max2(1, CeilDiv(Len(visible), questions_per_page))
           clamped == Max2(1, Min2(page, total_pages))
       IN /\ list # <<>>
          /\ session' = [session EXCEPT !.current_group_id = current]
          /\ response' =
                [kind |-> "questions",
                 current_group_id |-> current,
                 current_group_index |-> at.index,
                 total_groups |-> Len(list),
                 is_last_group |-> at.index >= Len(list) - 1,
                 can_go_back |-> at.index > 0 \/ clamped > 1,
                 questions |-> PaginatedQuestions(visible, clamped,
                                                  questions_per_page),
                 current_page |-> clamped,
                 total_pages |-> total_pages]
    /\ UNCHANGED <<db_vars, session_answers, now, ql_vars, fl_vars, up_vars, mt_vars>>

Next ==
    \/ \E f \in {None, 1}, g \in GroupIds \cup {None} : create_session(f, g)
    \/ \E a \in AnswerLists : submit_answers(a)
    \/ \E a \in AnswerLists : save_answers(a)
    \/ \E d \in {"forward", "backward"}, a \in AnswerLists : navigate_session(d, a)
    \/ \E p \in PageInputs, n \in PerPageInputs : get_session_questions(p, n)

Spec == Init /\ [][Next]_vars

----------------------------------------------------------------------------
(* Answer rows written by concurrent requests.  Each request runs the upsert
   loop of save_answers / submit_answers in an ORM session of its own
   (sessionmaker(autoflush=False)): a query reads the committed rows only,
   attribute changes and added objects reach the table at db.commit().  The
   session machine above keeps one value per question, which is this table
   under requests that run one after the other and name a question once. *)

\* question ids and answer lists a request can carry
WrittenQuestionIds == {1, 2}
RequestLists ==
    LET one == {[question_id |-> q, answer_value |-> v] :
                   q \in WrittenQuestionIds, v \in AnswerValues}
    IN {<<a>> : a \in one} \cup {<<a, b>> : a \in one, b \in one}

\* positions of the committed rows of a question
MatchingRows(rows, q) == {k \in 1..Len(rows) : rows[k].question_id = q}

RECURSIVE ApplyUpdates(_, _)
\* the table after the UPDATE statements of a flush
ApplyUpdates(rows, updates) ==
    IF updates = <<>> THEN rows
    ELSE ApplyUpdates([rows EXCEPT ![Head(updates).row].answer_value =
                                       Head(updates).answer_value],
                      Tail(updates))

\* rows the table can still grow by while the running requests finish
RowsInPlay ==
    LET F[R \in SUBSET Requests] ==
            IF R = {} THEN 0
            ELSE LET r == CHOOSE x \in R : TRUE
                 IN Len(requests[r].answers) + F[R \ {r}]
    IN Len(answer_rows) + F[Requests]

\* a request enters save_answers or submit_answers with its answer list
BeginRequest(r, answers) ==
    /\ requests[r].pc = "idle"
    /\ RowsInPlay + Len(answers) <= MaxRows
    /\ requests' = [requests EXCEPT ![r] =
                       [pc |-> "loop", answers |-> answers, i |-> 1,
                        updates |-> <<>>, inserts |-> <<>>]]
    /\ UNCHANGED <<answer_rows, last_written, ql_vars, fl_vars, ss_vars, mt_vars>>

\* one pass of "for answer_data in answers": the existence query, then the
\* attribute change on the row found or db.add of a new row
UpsertStep(r) ==
    LET req == requests[r] IN
    /\ req.pc = "loop"
    /\ req.i <= Len(req.answers)
    /\ LET a == req.answers[req.i]
           found == MatchingRows(answer_rows, a.question_id)
       IN IF found = {}
          THEN requests' = [requests EXCEPT ![r].i = req.i + 1,
                               ![r].inserts = Append(req.inserts, a)]
          ELSE \E k \in found :
                  requests' = [requests EXCEPT ![r].i = req.i + 1,
                                  ![r].updates = Append(req.updates,
                                      [row |-> k, answer_value |-> a.answer_value])]
    /\ UNCHANGED <<answer_rows, last_written, ql_vars, fl_vars, ss_vars, mt_vars>>

\* db.commit() after the loop: the flush writes the changed and the new rows
CommitRequest(r) ==
    LET req == requests[r] IN
    /\ req.pc = "loop"
    /\ req.i > Len(req.answers)
    /\ answer_rows' = ApplyUpdates(answer_rows, req.updates) \o req.inserts
    /\ last_written' =
          [q \in QuestionIds |->
              IF AnswerByQuestionId(req.answers)[q] # NoAnswer
              THEN AnswerByQuestionId(req.answers)[q]
              ELSE last_written[q]]
    /\ requests' = [requests EXCEPT ![r] = IdleRequest]
    /\ UNCHANGED <<ql_vars, fl_vars, ss_vars, mt_vars>>

InitUP ==
    /\ IdleUP
    /\ IdleQL
    /\ IdleFL
    /\ IdleSession
    /\ IdleMT

NextUP ==
    \/ \E r \in Requests, a \in RequestLists : BeginRequest(r, a)
    \/ \E r \in Requests : UpsertStep(r)
    \/ \E r \in Requests : CommitRequest(r)

SpecUP == InitUP /\ [][NextUP]_vars

----------------------------------------------------------------------------
(* The template merge engine (DocumentService._merge_template).  A template
   is a sequence of tokens: a text token is a run of characters without
   marker characters (" " is one space), the other tokens are the markers
   <<id>>, {{ IF <<id>> = "lit" }}, {{ IF <<id>> != "lit" }}, {{ IF <<id>> }},
   {{ IF NOT <<id>> }}, {{ END }}, [[, ]], ## and #^. written with single
   spaces as above.  An identifier is the sequence of its dot-separated
   segments, a string is the sequence of its text runs. *)

Token(kind, id, lit) == [kind |-> kind, id |-> id, lit |-> lit]
Txt(c) == Token("text", <<>>, <<c>>)
Ident(id) == Token("ident", id, <<>>)
EndTok == Token("end", <<>>, <<>>)
OpenTok == Token("open", <<>>, <<>>)
CloseTok == Token("close", <<>>, <<>>)

\* the four conditional headers, in the order of their passes
IfKinds == <<"ifeq", "ifne", "if", "ifnot">>
IsIfKind(kind) == \E k \in 1..Len(IfKinds) : IfKinds[k] = kind

\* the text tokens of a string
TextTokens(text) == [k \in 1..Len(text) |-> Txt(text[k])]

\* an answer value: its characters and what json.loads makes of them
\* ("invalid": JSONDecodeError; "dict": an object with the fields;
\* "list_of_dicts": a list whose first element is an object with the fields;
\* "list_of_strs": a list whose first element is the string first;
\* "list": any other list; "scalar": a number, true, false, null or a
\* quoted string)
PlainValue(text) ==
    [text |-> text, json |-> "invalid", fields |-> <<>>, first |-> <<>>]
DictValue(text, fields) ==
    [text |-> text, json |-> "dict", fields |-> fields, first |-> <<>>]
ListOfDictsValue(text, fields) ==
    [text |-> text, json |-> "list_of_dicts", fields |-> fields, first |-> <<>>]
ListOfStrsValue(text, first) ==
    [text |-> text, json |-> "list_of_strs", fields |-> <<>>, first |-> first]
OtherJsonValue(text, json) ==
    [text |-> text, json |-> json, fields |-> <<>>, first |-> <<>>]

\* answer_map.get(identifier, '')
ValueOf(amap, id) ==
    IF id \in DOMAIN amap THEN amap[id] ELSE PlainValue(<<>>)

\* an emptiness test that knows the empty string only
IsValueEmptyString(value) == value.text = <<>>

\* DocumentService._is_value_empty
IsValueEmpty(value) ==
    \/ value.text = <<>>
    \/ \A k \in 1..Len(value.text) : value.text[k] = " "
    \/ value.text[1] = "[" /\ value.text[Len(value.text)] = "]"

\* str.lower() of a text run
LowerRun(c) ==
    CASE c \in {"YES", "Yes"} -> "yes"
      [] c \in {"JO", "Jo"} -> "jo"
      [] OTHER -> c
\* a comparison that keeps letter case
LowerKeepsCase(text) == text
Lower(text) == [k \in 1..Len(text) |-> LowerRun(text[k])]

\* the condition of a conditional header
HeaderHolds(tok, amap) ==
    LET value == ValueOf(amap, tok.id) IN
    CASE tok.kind = "ifeq" -> Lower(value.text) = Lower(tok.lit)
      [] tok.kind = "ifne" -> Lower(value.text) # Lower(tok.lit)
      [] tok.kind = "if" -> ~IsValueEmpty(value)
      [] tok.kind = "ifnot" -> IsValueEmpty(value)

\* position of the first token of a kind, 0 when there is none
FirstOf(kind, toks) ==
    LET at == {k \in 1..Len(toks) : toks[k].kind = kind}
    IN IF at = {} THEN 0 ELSE CHOOSE k \in at : \A j \in at : k <= j

RECURSIVE IfPass(_, _, _)
\* re.sub of one conditional pattern: a header of the kind matches up to the
\* first {{ END }} after it ((.*?) is lazy); the text put in its place is
\* not scanned again
IfPass(kind, toks, amap) ==
    IF toks = <<>> THEN <<>>
    ELSE LET e == FirstOf("end", Tail(toks)) IN
         IF Head(toks).kind = kind /\ e > 0
         THEN (IF HeaderHolds(Head(toks), amap)
               THEN SubSeq(Tail(toks), 1, e - 1) ELSE <<>>)
              \o IfPass(kind, SubSeq(Tail(toks), e + 1, Len(toks) - 1), amap)
         ELSE <<Head(toks)>> \o IfPass(kind, Tail(toks), amap)

\* re.findall(r'<<([^>]+)>>', section_content): the identifiers of the
\* section, those inside conditional headers left in it included
SectionIdentifiers(content) ==
    {content[k].id : k \in {j \in 1..Len(content) :
                               content[j].kind = "ident" \/ IsIfKind(content[j].kind)}}

\* a bracket section that is never removed
SectionRemovedNever(content, amap) == FALSE

\* process_conditional_section: the section is removed
SectionRemoved(content, amap) ==
    \E id \in SectionIdentifiers(content) : IsValueEmpty(ValueOf(amap, id))

RECURSIVE ReplaceInSection(_, _)
\* result.replace(f'<<{identifier}>>', value) for every identifier
ReplaceInSection(content, amap) ==
    IF content = <<>> THEN <<>>
    ELSE LET tok == Head(content) IN
         (IF tok.kind = "ident" THEN TextTokens(ValueOf(amap, tok.id).text)
          ELSE IF IsIfKind(tok.kind)
          THEN <<Token("iftext", <<>>, ValueOf(amap, tok.id).text)>>
          ELSE <<tok>>)
         \o ReplaceInSection(Tail(content), amap)

RECURSIVE BracketPass(_, _)
\* re.sub(r'\[\[(.*?)\]\]', process_conditional_section, ...)
BracketPass(toks, amap) ==
    IF toks = <<>> THEN <<>>
    ELSE LET c == FirstOf("close", Tail(toks)) IN
         IF Head(toks).kind = "open" /\ c > 0
         THEN LET content == SubSeq(Tail(toks), 1, c - 1) IN
              (IF SectionIdentifiers(content) = {} THEN content
               ELSE IF SectionRemoved(content, amap) THEN <<>>
               ELSE ReplaceInSection(content, amap))
              \o BracketPass(SubSeq(Tail(toks), c + 1, Len(toks) - 1), amap)
         ELSE <<Head(toks)>> \o BracketPass(Tail(toks), amap)

\* '.'.join of the segments after the first one
FieldName(id) == SubSeq(id, 2, Len(id))

\* replace_identifier: the text an identifier outside a bracket section
\* is replaced by
ReplaceIdentifier(id, amap) ==
    IF Len(id) > 1
    THEN LET person == ValueOf(amap, <<id[1]>>) IN
         IF person.text = <<>> THEN <<>>
         ELSE IF person.json \in {"dict", "list_of_dicts"}
         THEN IF FieldName(id) \in DOMAIN person.fields
              THEN person.fields[FieldName(id)] ELSE <<>>
         ELSE IF person.json = "list_of_strs" /\ FieldName(id) = <<"name">>
         THEN person.first
         ELSE IF person.json = "invalid" /\ FieldName(id) = <<"name">>
         THEN person.text
         ELSE <<>>
    ELSE LET value == ValueOf(amap, id) IN
         IF ~IsValueEmpty(value) THEN value.text ELSE <<>>

RECURSIVE IdentPass(_, _)
\* re.sub(r'<<([^>]+)>>', replace_identifier, ...): the identifiers inside
\* conditional headers left in the text are replaced as well
IdentPass(toks, amap) ==
    IF toks = <<>> THEN <<>>
    ELSE LET tok == Head(toks) IN
         (IF tok.kind = "ident" THEN TextTokens(ReplaceIdentifier(tok.id, amap))
          ELSE IF IsIfKind(tok.kind)
          THEN <<Token("iftext", <<>>, ReplaceIdentifier(tok.id, amap))>>
          ELSE <<tok>>)
         \o IdentPass(Tail(toks), amap)

\* str(n) of the counter values
Digits == <<"1", "2", "3", "4", "5", "6", "7", "8", "9">>

\* re.sub(r'#\^\.', replace_counter_peek, ...): runs before any ## is
\* replaced, with counter[0] as it is then
PeekPass(toks, counter) ==
    [k \in 1..Len(toks) |->
        IF toks[k].kind = "peek" THEN Txt(Digits[counter]) ELSE toks[k]]

\* a counter that is never advanced
CountPassRepeats(toks, counter) ==
    [k \in 1..Len(toks) |->
        IF toks[k].kind = "count" THEN Txt(Digits[counter]) ELSE toks[k]]

RECURSIVE CountPass(_, _)
\* re.sub(r'##', replace_counter, ...)
CountPass(toks, counter) ==
    IF toks = <<>> THEN <<>>
    ELSE IF Head(toks).kind = "count"
    THEN <<Txt(Digits[counter])>> \o CountPass(Tail(toks), counter + 1)
    ELSE <<Head(toks)>> \o CountPass(Tail(toks), counter)

RECURSIVE CollapseSpaces(_)
\* re.sub(r'  +', ' ', ...)
CollapseSpaces(toks) ==
    IF Len(toks) < 2 THEN toks
    ELSE IF toks[1] = Txt(" ") /\ toks[2] = Txt(" ")
    THEN CollapseSpaces(Tail(toks))
    ELSE <<Head(toks)>> \o CollapseSpaces(Tail(toks))

\* DocumentService._merge_template(template_content, answer_map)
MergeTemplate(toks, amap) ==
    LET eq == IfPass("ifeq", toks, amap)
        ne == IfPass("ifne", eq, amap)
        ex == IfPass("if", ne, amap)
        nx == IfPass("ifnot", ex, amap)
        br == BracketPass(nx, amap)
        id == IdentPass(br, amap)
    IN CollapseSpaces(CountPass(PeekPass(id, 1), 1))

----------------------------------------------------------------------------
(* Inputs of the merge engine *)

\* identifiers: "a" and "b" are plain, "g.a" is question a of group g as the
\* questions table stores identifiers, "g" is a person question
IdA == <<"a">>
IdB == <<"b">>
IdGA == <<"g", "a">>
IdG == <<"g">>
MergeKeys == {IdA, IdB, IdGA, IdG}

\* no entry for the identifier in the answer map
AbsentValue == OtherJsonValue(<<>>, "absent")
NoFields == [f \in {} |-> <<>>]

\* the entries an identifier can have in the answer map
ValueChoices ==
    [k \in MergeKeys |->
        CASE k = IdA -> {AbsentValue,
                         PlainValue(<<>>),
                         PlainValue(<<"Jo">>),
                         PlainValue(<<"JO">>),
                         PlainValue(<<"[", "n/a", "]">>),
                         PlainValue(<<"J", " ", " ", "D">>)}
          [] k = IdB -> {AbsentValue, PlainValue(<<>>), PlainValue(<<"$5">>),
                         PlainValue(<<"YES">>), PlainValue(<<" ">>)}
          [] k = IdGA -> {AbsentValue, PlainValue(<<"Jo">>)}
          [] k = IdG -> {AbsentValue,
                         DictValue(<<"{a: Ann}">>,
                                   [f \in {<<"a">>} |-> <<"Ann">>]),
                         ListOfStrsValue(<<"[", "Ann, Bob", "]">>, <<"Ann">>),
                         PlainValue(<<"Ann Lee">>),
                         OtherJsonValue(<<"5">>, "scalar")}]

\* the answer maps a merge is called with
AnswerMaps ==
    {[k \in {j \in MergeKeys : c[j] # AbsentValue} |-> c[k]] :
        c \in {d \in [MergeKeys -> UNION {ValueChoices[k] : k \in MergeKeys}] :
                  \A k \in MergeKeys : d[k] \in ValueChoices[k]}}

\* a conditional header on an identifier; the literal of the comparing forms
\* is the non-empty answer of the identifier
Header(kind, id) ==
    Token(kind, id,
          IF kind \in {"ifeq", "ifne"}
          THEN (IF id = IdB THEN <<"$5">> ELSE <<"Jo">>) ELSE <<>>)

\* tokens of the generated templates
TemplateTokens ==
    {Txt("P"), Txt(" "), Ident(IdA), Ident(IdB), Ident(IdGA),
     Header("if", IdA), EndTok, OpenTok, CloseTok}

RECURSIVE TemplatesOfLength(_)
TemplatesOfLength(n) ==
    IF n = 0 THEN {<<>>}
    ELSE {Append(t, tok) : t \in TemplatesOfLength(n - 1), tok \in TemplateTokens}

\* {{ IF a.. }}P{{ IF b.. }}Q{{ END }}R{{ END }} for the four forms
NestedTemplate(outer, inner) ==
    <<Header(outer, IdA), Txt("P"), Header(inner, IdB), Txt("Q"), EndTok,
      Txt("R"), EndTok>>
NestedTemplates ==
    {NestedTemplate(IfKinds[o], IfKinds[i]) : o \in 1..4, i \in 1..4}

\* P[[ ... ]]R with up to two tokens in the section
SectionTokens == {Txt("Q"), Ident(IdA), Ident(IdB), Ident(IdGA)}
SectionContents ==
    {<<>>} \cup {<<x>> : x \in SectionTokens}
           \cup {<<x, y>> : x \in SectionTokens, y \in SectionTokens}
SectionTemplate(content) ==
    <<Txt("P"), OpenTok>> \o content \o <<CloseTok, Txt("R")>>
SectionTemplates == {SectionTemplate(c) : c \in SectionContents}

\* Dear <<client_name>>, [[you owe <<amount>>]].  with "a" for client_name
\* and "b" for amount
DearTemplate ==
    <<Txt("Dear"), Txt(" "), Ident(IdA), Txt(","), Txt(" "), OpenTok,
      Txt("you"), Txt(" "), Txt("owe"), Txt(" "), Ident(IdB), CloseTok, Txt(".")>>

\* the counter markers ## and #^.
CountTok == Token("count", <<>>, <<>>)
PeekTok == Token("peek", <<>>, <<>>)

\* #^. of ##-##
CounterTemplate ==
    <<PeekTok, Txt(" "), Txt("of"), Txt(" "), CountTok, Txt("-"), CountTok>>

RECURSIVE CountersOfLength(_)
\* every arrangement of ##, #^. and "-"
CountersOfLength(n) ==
    IF n = 0 THEN {<<>>}
    ELSE {Append(t, tok) : t \in CountersOfLength(n - 1),
                           tok \in {CountTok, PeekTok, Txt("-")}}
CounterTemplates == UNION {CountersOfLength(n) : n \in 1..MaxCounters}

\* {{ IF id.. }}X{{ END }} and {{ IF id.. }}X{{ END }}{{ IF id.. }}Y{{ END }}
\* with the same identifier and literal in both headers
BlockTemplate(kind, id, lit) == <<Token(kind, id, lit), Txt("X"), EndTok>>
PairTemplate(first, second, id, lit) ==
    <<Token(first, id, lit), Txt("X"), EndTok,
      Token(second, id, lit), Txt("Y"), EndTok>>

\* the literals of the comparing headers
Literals == {<<"Jo">>, <<"yes">>, <<>>}

\* blocks of the = and != forms
EqualityTemplates ==
    {BlockTemplate(kind, id, lit) :
        kind \in {"ifeq", "ifne"}, id \in {IdA, IdB}, lit \in Literals}
    \cup {PairTemplate("ifeq", "ifne", id, lit) :
             id \in {IdA, IdB}, lit \in Literals}

\* blocks of the IF and IF NOT forms
ExistenceTemplates ==
    {BlockTemplate(kind, id, <<>>) :
        kind \in {"if", "ifnot"}, id \in {IdA, IdB, IdGA}}
    \cup {PairTemplate("if", "ifnot", id, <<>>) : id \in {IdA, IdB, IdGA}}

\* <<g.field>>: a field of the answer stored under g
DottedTemplates == {<<Ident(<<"g", f>>)>> : f \in {"a", "name", "zip"}}

Templates ==
    UNION {TemplatesOfLength(n) : n \in 0..MaxTokens}
    \cup DottedTemplates
    \cup NestedTemplates \cup SectionTemplates
    \cup EqualityTemplates \cup ExistenceTemplates
    \cup CounterTemplates
    \cup {DearTemplate, CounterTemplate}

----------------------------------------------------------------------------
(* The merge engine applied to a stored template *)

InitMT ==
    /\ template \in Templates
    /\ answer_map \in AnswerMaps
    /\ merged = <<>>
    /\ mt_pc = "ready"
    /\ calls = [c \in Calls |-> IdleCall]
    /\ IdleQL
    /\ IdleFL
    /\ IdleSession
    /\ IdleUP

\* generate_document / preview_document:
\* merged_content = _merge_template(template.markdown_content, answer_map)
merge_template ==
    /\ mt_pc = "ready"
    /\ merged' = MergeTemplate(template, answer_map)
    /\ mt_pc' = "done"
    /\ UNCHANGED <<template, answer_map, calls, ql_vars, fl_vars, ss_vars, up_vars>>

NextMT == merge_template

SpecMT == InitMT /\ [][NextMT]_vars

----------------------------------------------------------------------------
(* The counter passes of _merge_template calls that run at the same time *)

\* the templates of the calls
CallTemplates == UNION {CountersOfLength(n) : n \in 1..MaxCallTokens}

\* a counter shared by all calls
CallCounterShared(cs, c) == cs[1].counter

\* counter[0] as the closures of a call read it
CallCounter(cs, c) == cs[c].counter

\* the call is entered: counter = [1]
BeginCall(c, t) ==
    /\ calls[c].pc \in {"idle", "done"}
    /\ calls' = [calls EXCEPT ![c] =
                    [pc |-> "peek", template |-> t, text |-> t, counter |-> 1]]
    /\ UNCHANGED <<template, answer_map, merged, mt_pc>>
    /\ UNCHANGED <<ql_vars, fl_vars, ss_vars, up_vars>>

\* re.sub(r'#\^\.', replace_counter_peek, merged_content)
PeekCall(c) ==
    /\ calls[c].pc = "peek"
    /\ calls' = [calls EXCEPT
                    ![c].text = PeekPass(calls[c].text, CallCounter(calls, c)),
                    ![c].pc = "count"]
    /\ UNCHANGED <<template, answer_map, merged, mt_pc>>
    /\ UNCHANGED <<ql_vars, fl_vars, ss_vars, up_vars>>

\* replace_counter called on the next ## of re.sub(r'##', ...)
CountCall(c) ==
    /\ calls[c].pc = "count"
    /\ FirstOf("count", calls[c].text) > 0
    /\ calls' = [calls EXCEPT
                    ![c].text = [calls[c].text EXCEPT
                                    ![FirstOf("count", calls[c].text)] =
                                        Txt(Digits[CallCounter(calls, c)])],
                    ![c].counter = CallCounter(calls, c) + 1]
    /\ UNCHANGED <<template, answer_map, merged, mt_pc>>
    /\ UNCHANGED <<ql_vars, fl_vars, ss_vars, up_vars>>

\* return merged_content
ReturnCall(c) ==
    /\ calls[c].pc = "count"
    /\ FirstOf("count", calls[c].text) = 0
    /\ calls' = [calls EXCEPT ![c].pc = "done"]
    /\ UNCHANGED <<template, answer_map, merged, mt_pc>>
    /\ UNCHANGED <<ql_vars, fl_vars, ss_vars, up_vars>>

InitMC ==
    /\ IdleQL
    /\ IdleFL
    /\ IdleSession
    /\ IdleUP
    /\ IdleMT

NextMC ==
    \/ \E c \in Calls, t \in CallTemplates : BeginCall(c, t)
    \/ \E c \in Calls : PeekCall(c)
    \/ \E c \in Calls : CountCall(c)
    \/ \E c \in Calls : ReturnCall(c)

SpecMC == InitMC /\ [][NextMC]_vars

----------------------------------------------------------------------------
(* Reading the evaluators' logs *)

RECURSIVE ItemAt(_, _)
\* the item of a question-logic tree at a position
ItemAt(items, path) ==
    IF Len(path) = 1 THEN items[path[1]]
    ELSE ItemAt(items[path[1]].nestedItems, Tail(path))

\* the list an item at a position is an element of
SiblingsAt(items, path) ==
    IF Len(path) = 1 THEN items
    ELSE ItemAt(items, SubSeq(path, 1, Len(path) - 1)).nestedItems

\* position p lies strictly above position q
Encloses(p, q) ==
    Len(p) < Len(q) /\ SubSeq(q, 1, Len(p)) = p

\* the item the evaluator logged i-th
Logged(i) == ItemAt(question_logic, ql_log[i])

\* the i-th logged item is a conditional and one of its nested items was logged
NestedShown(i) ==
    \E j \in 1..Len(ql_log) : Encloses(ql_log[i], ql_log[j])

\* the i-th logged item is the last one logged, its nested items included
TraversalEndsIn(i) ==
    LET last == ql_log[Len(ql_log)]
    IN last = ql_log[i] \/ Encloses(ql_log[i], last)

\* the stored answer of the question carrying an identifier
StoredAnswer(ident) ==
    LET qs == {q \in QuestionIds : Questions[q].identifier = ident}
    IN IF qs = {} THEN NoAnswer ELSE existing_answers[CHOOSE q \in qs : TRUE]

\* the condition of a logged conditional holds on the stored answers, for
\* the two operators the evaluator knows
Satisfied(item) ==
    /\ StoredAnswer(item.ifIdentifier) \notin {NoAnswer, ""}
    /\ \/ item.operator = "equals"
          /\ StoredAnswer(item.ifIdentifier) = item.value
       \/ item.operator = "not_equals"
          /\ StoredAnswer(item.ifIdentifier) # item.value

----------------------------------------------------------------------------
(* Claims on the question-logic evaluator, checked under SpecQL *)

\* C4 as stated: a logged question leaf with stopFlow is the last item
\* logged, and its question is the last element of the returned list.
C4_StopLeafQuestionIsLast ==
    ql_pc = "done" =>
        \A i \in 1..Len(ql_log) :
            (Logged(i).type = "question" /\ Logged(i).stopFlow) =>
                /\ i = Len(ql_log)
                /\ shown # <<>>
                /\ shown[Len(shown)] = Logged(i).questionId

\* C4 amended: a logged question leaf with stopFlow is the last item logged,
\* so that no item after it in depth-first order is visited; its question is
\* the last element of the returned list when the question is active and no
\* earlier logged leaf names it.
C4_StopFlowEndsTraversal ==
    ql_pc = "done" =>
        \A i \in 1..Len(ql_log) :
            (Logged(i).type = "question" /\ Logged(i).stopFlow) =>
                LET qid == Logged(i).questionId
                    fresh == /\ qid \in QuestionIds
                             /\ Questions[qid].is_active
                             /\ \A j \in 1..(i - 1) :
                                   ~(Logged(j).type = "question"
                                     /\ Logged(j).questionId = qid)
                IN /\ i = Len(ql_log)
                   /\ fresh => (shown # <<>> /\ shown[Len(shown)] = qid)

\* C4 witness: the evaluator stopped at a stopFlow leaf nested in a
\* conditional, leaving a sibling of the leaf and a sibling of the enclosing
\* conditional unvisited.
C4_Witness ==
    /\ ql_pc = "done"
    /\ ql_log # <<>>
    /\ LET last == ql_log[Len(ql_log)]
       IN /\ Len(last) = 2
          /\ ItemAt(question_logic, last).type = "question"
          /\ ItemAt(question_logic, last).stopFlow
          /\ last[2] < Len(SiblingsAt(question_logic, last))
          /\ last[1] < Len(question_logic)
          /\ shown # <<>>

\* C5: a logged conditional whose identifier has no stored answer, or an
\* empty one, has none of its nested items visited, whatever its operator
\* and expected value.
C5_EmptySourceNeverFires ==
    ql_pc = "done" =>
        \A i \in 1..Len(ql_log) :
            (Logged(i).type = "conditional"
             /\ StoredAnswer(Logged(i).ifIdentifier) \in {NoAnswer, ""}) =>
                ~NestedShown(i)

\* C5 witness: an 'equals' conditional with nested items and the expected
\* value "" was evaluated against the stored answer "".
C5_Witness ==
    /\ ql_pc = "done"
    /\ existing_answers[1] = ""
    /\ \E i \in 1..Len(ql_log) :
          /\ Logged(i).type = "conditional"
          /\ Logged(i).operator = "equals"
          /\ Logged(i).value = ""
          /\ Logged(i).nestedItems # <<>>
    /\ shown = <<>>

\* C6: a logged conditional with endFlow and a known operator ends the whole
\* traversal inside itself when its condition holds; when it does not hold,
\* the item that follows it in its list is logged next.
C6_EndFlowOnlyWhenMet ==
    ql_pc = "done" =>
        \A i \in 1..Len(ql_log) :
            (Logged(i).type = "conditional" /\ Logged(i).endFlow
             /\ Logged(i).operator \in {"equals", "not_equals"}) =>
                LET p == ql_log[i]
                    k == Len(p)
                IN /\ Satisfied(Logged(i)) => TraversalEndsIn(i)
                   /\ (~Satisfied(Logged(i))
                       /\ p[k] < Len(SiblingsAt(question_logic, p))) =>
                          /\ i < Len(ql_log)
                          /\ ql_log[i + 1] = [p EXCEPT ![k] = p[k] + 1]

\* C6 witness: a satisfied endFlow conditional showed its nested item and
\* the item that follows the conditional was not visited.
C6_Witness ==
    /\ ql_pc = "done"
    /\ \E i \in 1..Len(ql_log) :
          /\ Logged(i).type = "conditional"
          /\ Logged(i).endFlow
          /\ Satisfied(Logged(i))
          /\ NestedShown(i)
          /\ Len(ql_log[i]) = 1
          /\ ql_log[i][1] < Len(question_logic)
          /\ question_logic[ql_log[i][1] + 1].type = "question"
          /\ shown # <<>>

\* C7 as stated: a logged conditional whose operator is neither 'equals' nor
\* 'not_equals' never has a nested item visited.
C7_UnknownOperatorNotSatisfied ==
    ql_pc = "done" =>
        \A i \in 1..Len(ql_log) :
            (Logged(i).type = "conditional"
             /\ Logged(i).operator \notin {"equals", "not_equals"}) =>
                ~NestedShown(i)

RECURSIVE WithoutDeadQuestions(_)
\* a question-logic tree without the leaves whose question has no active row
WithoutDeadQuestions(items) ==
    IF items = <<>> THEN <<>>
    ELSE LET item == Head(items)
             rest == WithoutDeadQuestions(Tail(items))
         IN IF item.type = "question"
            THEN IF item.questionId \in QuestionIds
                    /\ Questions[item.questionId].is_active
                 THEN <<item>> \o rest ELSE rest
            ELSE <<[item EXCEPT !.nestedItems = WithoutDeadQuestions(@)]>> \o rest

\* C8 as stated: the returned list equals the list the traversal returns for
\* the same tree with the leaves removed whose question is missing or
\* inactive.
C8_DeadReferenceSkipped ==
    (ql_pc = "done" /\ question_logic # <<>>) =>
        shown = process_logic_items(WithoutDeadQuestions(question_logic), 1, <<>>,
                    [questions |-> <<>>, log |-> <<>>],
                    AnswerByIdentifier(existing_answers)).questions

\* the place in the log of the first leaf naming a question, 0 when no
\* logged leaf names it
FirstVisit(qid) ==
    LET at == {i \in 1..Len(ql_log) :
                  Logged(i).type = "question" /\ Logged(i).questionId = qid}
    IN IF at = {} THEN 0 ELSE CHOOSE i \in at : \A j \in at : i <= j

\* C9: the returned list has no question twice and only questions with an
\* active row; for a stored tree it holds exactly the active questions of
\* the logged leaves, in the order of their first visit.
C9_UniqueActiveInVisitOrder ==
    ql_pc = "done" =>
        /\ \A i, j \in 1..Len(shown) : shown[i] = shown[j] => i = j
        /\ \A i \in 1..Len(shown) :
              shown[i] \in QuestionIds /\ Questions[shown[i]].is_active
        /\ question_logic # <<>> =>
              /\ \A i \in 1..Len(shown) : FirstVisit(shown[i]) > 0
              /\ \A i, j \in 1..Len(shown) :
                    i < j => FirstVisit(shown[i]) < FirstVisit(shown[j])
              /\ \A q \in QuestionIds :
                    (Questions[q].is_active /\ FirstVisit(q) > 0) =>
                        InList(q, shown)

\* C9 witness: an active question was visited through two leaves, one of
\* them nested in a satisfied conditional, and is listed once before another
\* question.
C9_Witness ==
    /\ ql_pc = "done"
    /\ Len(shown) = 2
    /\ \E i, j \in 1..Len(ql_log) :
          /\ i < j
          /\ Logged(i).type = "question"
          /\ Logged(j).type = "question"
          /\ Logged(i).questionId = Logged(j).questionId
          /\ Logged(i).questionId = shown[1]
          /\ Len(ql_log[j]) >= 2

----------------------------------------------------------------------------
(* Claims on the flow materialization, checked under SpecFL *)

\* C10 as stated: while the tested identifier has no stored answer, or the
\* empty string, no conditional adds its target group or has a nested step
\* visited: the list holds only groups of top-level group steps.
C10_FlowEmptySourceNeverFires ==
    (fl_pc = "done" /\ flow_answers[1] \in {NoAnswer, ""}) =>
        /\ \A i \in 1..Len(fl_log) : Len(fl_log[i]) = 1
        /\ \A k \in 1..Len(ordered) :
              \E i \in 1..Len(flow_logic) :
                 flow_logic[i].type = "group" /\ flow_logic[i].groupId = ordered[k]

----------------------------------------------------------------------------
(* Claims on the session state machine, checked under Spec *)

\* all active question groups in display_order, ties in id order
ActiveGroupsInOrder ==
    LET act == {g \in GroupIds : question_groups[g].is_active}
    IN SetToSortedSeq(act, [g \in act |-> question_groups[g].display_order])

\* the session's flow has a logic tree
HasFlowLogic ==
    session.flow_id # None /\ flows[session.flow_id].flow_logic # <<>>

\* the ordered group list of the session as the specification defines it: the
\* materialized flow, and all active groups in display_order without one
SpecifiedGroupList ==
    IF HasFlowLogic
    THEN GetGroupsFromFlowLogic(flows[session.flow_id].flow_logic,
                                session_answers, question_groups).groups
    ELSE ActiveGroupsInOrder

\* no question logic and no flow step is a conditional
NoConditionals ==
    /\ \A g \in GroupIds : question_groups[g].question_logic = <<>>
    /\ \A f \in DOMAIN flows : \A i \in 1..Len(flows[f].flow_logic) :
          flows[f].flow_logic[i].type = "group"

\* C1 as stated: without conditionals, a submit_answers step of a session
\* that is not completed moves it from a non-last group of its ordered group
\* list to the next one and completes it, with a timestamp, exactly on the
\* last group.
C1_SubmitWalksTheGroupList ==
    [][(/\ NoConditionals
        /\ session.exists /\ ~session.is_completed
        /\ InList(session.current_group_id, SpecifiedGroupList)
        /\ \E a \in AnswerLists : submit_answers(a))
       => LET list == SpecifiedGroupList
              idx == CurrentIndex(list, session.current_group_id).index + 1
          IN IF idx < Len(list)
             THEN /\ ~session'.is_completed
                  /\ session'.current_group_id = list[idx + 1]
             ELSE /\ session'.is_completed
                  /\ session'.completed_at # None]_vars

\* C2 as stated: a forward navigate_session step without answers leaves the
\* session with a current group and a completion flag that submit_answers
\* with an empty answer list can produce from the same state.
C2_ForwardIsSubmitWithoutAnswers ==
    [][(session.exists /\ navigate_session("forward", <<>>))
       => \E next \in GetNextGroup(question_groups, session.current_group_id, <<>>) :
             /\ session'.current_group_id
                    = Advance(session, next, now + 1).current_group_id
             /\ session'.is_completed
                    = Advance(session, next, now + 1).is_completed]_vars

\* C3 as stated: for a session without a flow, or whose flow has no logic
\* tree, get_session_questions reports as many groups as there are active
\* groups, and its last-group flag is set only on the last of them.
C3_FallbackIsAllActiveGroups ==
    (response.kind = "questions" /\ ~HasFlowLogic) =>
        /\ response.total_groups = Len(ActiveGroupsInOrder)
        /\ response.is_last_group =>
              response.current_group_id
                  = ActiveGroupsInOrder[Len(ActiveGroupsInOrder)]

\* the stored rows a plain flow over three active groups in display order
\* 1, 2, 3 consists of
PlainThreeGroupFlow ==
    /\ \A g \in GroupIds :
          /\ question_groups[g].is_active
          /\ question_groups[g].display_order = g - 1
          /\ question_groups[g].question_logic = <<>>
    /\ flows[1].flow_logic = <<GroupStep(1), GroupStep(2), GroupStep(3)>>

\* C11: a backward navigate_session step, after storing the answers it
\* carries, moves the session to the entry of its ordered group list just
\* before the current group and touches no other field; on the first entry
\* the session row is left as it was.
C11_BackwardMovesToPreviousEntry ==
    [][\A a \in AnswerLists :
          navigate_session("backward", a) =>
             LET list == OrderedGroups(session, question_groups, flows,
                                       session_answers')
                 gid == session.current_group_id
             IN /\ \A k \in 2..Len(list) :
                      list[k] = gid =>
                         session' = [session EXCEPT !.current_group_id = list[k - 1]]
                /\ (list # <<>> /\ list[1] = gid) => session' = session
                /\ session'.is_completed = session.is_completed
                /\ session'.completed_at = session.completed_at]_vars

\* a session completed on the last of three groups stands on the first one
\* again: only backward steps lead there
C11_Witness ==
    /\ PlainThreeGroupFlow
    /\ session.exists /\ session.flow_id = 1
    /\ session.is_completed
    /\ session.current_group_id = 1

\* C12 as stated: a submit_answers step on a completed session stores no
\* answer and leaves the session row (current group, completion flag,
\* timestamp) as it was.
C12_SubmitOnCompletedRejected ==
    [][(session.exists /\ session.is_completed) =>
          \A a \in AnswerLists :
             submit_answers(a) =>
                /\ session_answers' = session_answers
                /\ session' = session]_vars

\* C13: a completed session carries a completion timestamp, and no step of
\* submit_answers, save_answers, navigate_session or get_session_questions
\* takes the completion flag or the timestamp away again.
C13_CompletionNeverUndone ==
    /\ [](session.is_completed => session.completed_at # None)
    /\ [][session.is_completed =>
             (session'.is_completed /\ session'.completed_at # None)]_vars

\* a session that was completed, edited and completed a second time, read by
\* get_session_questions
C13_Witness ==
    /\ session.is_completed
    /\ session.completed_at >= 2
    /\ session_answers[1] # NoAnswer
    /\ response.kind = "questions"

----------------------------------------------------------------------------
(* Claims on the answer rows, checked under SpecUP *)

\* C14 as stated: whatever the requests did so far, the table holds at most
\* one row per question, and that row holds the value of the latest
\* committed write of the question.
C14_OneRowPerQuestionLatestValue ==
    \A q \in QuestionIds :
       LET at == MatchingRows(answer_rows, q)
       IN /\ Cardinality(at) <= 1
          /\ \A k \in at :
                last_written[q] # NoAnswer =>
                   answer_rows[k].answer_value = last_written[q]

----------------------------------------------------------------------------
(* Further claims on the session state machine, checked under Spec *)

\* the submitted answer of the group's question with the identifier, NoAnswer
\* when the group has no such question or the list has no answer for it
SubmittedAnswer(gid, ident, answers) ==
    LET qs == {q \in QuestionIds : /\ Questions[q].question_group_id = gid
                                   /\ Questions[q].identifier = ident}
    IN IF qs = {} THEN NoAnswer
       ELSE AnswerByQuestionId(answers)[CHOOSE q \in qs : TRUE]

RECURSIVE SatisfiedJumps(_, _, _)
\* the nextGroupId values of the conditionals of a question-logic tree that
\* the submitted answers satisfy, each inside satisfied conditionals only
SatisfiedJumps(items, gid, answers) ==
    IF items = <<>> THEN {}
    ELSE LET item == Head(items)
             actual == SubmittedAnswer(gid, item.ifIdentifier, answers)
             met == /\ item.type = "conditional"
                    /\ actual \notin {NoAnswer, ""}
                    /\ ConditionMet(item.operator, actual, item.value)
         IN (IF met
             THEN (IF item.nextGroupId # None THEN {item.nextGroupId} ELSE {})
                  \cup SatisfiedJumps(item.nestedItems, gid, answers)
             ELSE {})
            \cup SatisfiedJumps(Tail(items), gid, answers)

\* C15 as stated: a submit_answers step moves the session to the nextGroupId
\* of a conditional of the current group's question logic that the submitted
\* answers satisfy, whenever there is one, and to a group of the next higher
\* display_order (completing the session when there is none) otherwise.
C15_SatisfiedConditionalChoosesNextGroup ==
    [][\A a \in AnswerLists :
          (session.exists /\ submit_answers(a)) =>
             LET gid == session.current_group_id
                 jumps == SatisfiedJumps(question_groups[gid].question_logic,
                                         gid, a)
             IN IF jumps # {}
                THEN session'.current_group_id \in jumps
                ELSE \E n \in NextByDisplayOrder(question_groups, gid) :
                        /\ session'.current_group_id
                              = Advance(session, n, now + 1).current_group_id
                        /\ session'.is_completed
                              = Advance(session, n, now + 1).is_completed]_vars

RECURSIVE PagesUpTo(_, _, _)
\* the pages 1..k of a question list, one after the other
PagesUpTo(visible, k, s) ==
    IF k = 0 THEN <<>>
    ELSE PagesUpTo(visible, k - 1, s) \o PaginatedQuestions(visible, k, s)

\* C16: a get_session_questions step for page p and page size s >= 1 over n
\* visible questions reports total_pages = max(1, ceil(n/s)) and the page
\* clamped into 1..total_pages, returns that page of the list, the pages
\* 1..total_pages in order make up the list again, can_go_back is set iff the
\* current group is not the first of the ordered list or the page is not the
\* first, and is_last_group iff the current group is the last of the list.
C16_PaginationView ==
    [][response'.kind = "questions" =>
          LET r == response'
              cur == session'.current_group_id
              list == OrderedGroups(session', question_groups, flows,
                                    session_answers)
              visible == GetQuestionsFromLogic(cur,
                             question_groups[cur].question_logic,
                             session_answers).questions
              n == Len(visible)
              total == r.total_pages
              page == r.current_page
          IN \A p \in PageInputs, s \in PerPageInputs :
                get_session_questions(p, s) =>
                   /\ total >= 1
                   /\ (total - 1) * s < n \/ (n = 0 /\ total = 1)
                   /\ n <= total * s
                   /\ page = (IF p < 1 THEN 1
                              ELSE IF p > total THEN total ELSE p)
                   /\ r.questions = [k \in 1..Len(r.questions) |->
                                        visible[(page - 1) * s + k]]
                   /\ Len(r.questions) = Min2(s, Max2(0, n - (page - 1) * s))
                   /\ PagesUpTo(visible, total, s) = visible
                   /\ r.can_go_back <=> (list[1] # cur \/ page > 1)
                   /\ r.is_last_group <=> (list[Len(list)] = cur)]_vars

\* the second of two pages of one question each, of the last of the two
\* groups of a flow
C16_Witness ==
    /\ response.kind = "questions"
    /\ response.total_pages = 2
    /\ response.current_page = 2
    /\ Len(response.questions) = 1
    /\ response.can_go_back
    /\ response.is_last_group
    /\ response.total_groups = 2


----------------------------------------------------------------------------
(* Merged documents *)

\* the template is text and <<id>> markers only, and every identifier in it
\* is a key of the answer map with a non-empty value
AnsweredIdentifiersOnly ==
    \A k \in 1..Len(template) :
        \/ template[k].kind = "text"
        \/ /\ template[k].kind = "ident"
           /\ template[k].id \in DOMAIN answer_map
           /\ ~IsValueEmpty(answer_map[template[k].id])

RECURSIVE Expansion(_, _)
\* the text with every <<id>> replaced by answer_map[id]
Expansion(toks, amap) ==
    IF toks = <<>> THEN <<>>
    ELSE (IF Head(toks).kind = "ident"
          THEN TextTokens(amap[Head(toks).id].text) ELSE <<Head(toks)>>)
         \o Expansion(Tail(toks), amap)

\* C17: every <<id>> outside conditional markup whose identifier, namespaced
\* (group.question) or not, is a key of the answer map with a non-empty value
\* v is replaced by v: the merged text is the template with v in place of
\* each <<id>> (up to the final collapse of runs of spaces)
C17_IdentifierReplacedByValue ==
    (mt_pc = "done" /\ AnsweredIdentifiersOnly)
        => merged = CollapseSpaces(Expansion(template, answer_map))


\* a token occurs in a text
Contains(toks, tok) == \E k \in 1..Len(toks) : toks[k] = tok

\* the kinds of the tokens that are, or are what is left of, a conditional
\* marker
MarkerKinds == {"ifeq", "ifne", "if", "ifnot", "iftext", "end"}

\* C18: for {{ IF a.. }}P{{ IF b.. }}Q{{ END }}R{{ END }}, with any of the four
\* IF forms as the outer and as the inner block, the merged text contains Q
\* only when both conditions hold, contains P and R exactly when the outer
\* condition holds, and contains no {{ IF ... }} or {{ END }} marker
C18_NestedConditionals ==
    (mt_pc = "done" /\ template \in NestedTemplates)
        => LET outer == HeaderHolds(template[1], answer_map)
               inner == HeaderHolds(template[3], answer_map)
           IN /\ Contains(merged, Txt("Q")) => (outer /\ inner)
              /\ Contains(merged, Txt("P")) <=> outer
              /\ Contains(merged, Txt("R")) <=> outer
              /\ \A k \in 1..Len(merged) : merged[k].kind \notin MarkerKinds


\* the template is text, one [[ ... ]] section of text and <<id>> markers,
\* and text
OneSectionTemplate ==
    LET o == FirstOf("open", template)
        c == FirstOf("close", template)
    IN /\ o > 0
       /\ c > o
       /\ \A k \in 1..Len(template) :
             CASE k < o \/ k > c -> template[k].kind = "text"
               [] k > o /\ k < c -> template[k].kind \in {"text", "ident"}
               [] OTHER -> TRUE

\* the text before, inside and after the section of such a template
BeforeSection == SubSeq(template, 1, FirstOf("open", template) - 1)
InsideSection ==
    SubSeq(template, FirstOf("open", template) + 1, FirstOf("close", template) - 1)
AfterSection == SubSeq(template, FirstOf("close", template) + 1, Len(template))

\* the answers of the identifiers of the section
SectionAnswers ==
    {ValueOf(answer_map, InsideSection[k].id) :
        k \in {j \in 1..Len(InsideSection) : InsideSection[j].kind = "ident"}}

\* C19: a [[ ... ]] section whose identifiers all have non-empty answers is
\* kept with the brackets stripped and its identifiers substituted (so is a
\* section without identifiers); a section whose identifiers are all empty or
\* unanswered is removed entirely.  Dear <<a>>, [[you owe <<b>>]]. merges to
\* "Dear Jo, ." when b is empty and to "Dear Jo, you owe $5." when b is "$5"
C19_BracketSectionKeptOrRemoved ==
    /\ (mt_pc = "done" /\ OneSectionTemplate)
          => /\ (\A v \in SectionAnswers : ~IsValueEmpty(v))
                   => merged = CollapseSpaces(
                                  BeforeSection
                                  \o Expansion(InsideSection, answer_map)
                                  \o AfterSection)
             /\ (SectionAnswers # {} /\ \A v \in SectionAnswers : IsValueEmpty(v))
                   => merged = CollapseSpaces(BeforeSection \o AfterSection)
    /\ (mt_pc = "done" /\ template = DearTemplate
        /\ ValueOf(answer_map, IdA).text = <<"Jo">>)
          => /\ ValueOf(answer_map, IdB).text = <<>>
                   => merged = TextTokens(<<"Dear", " ", "Jo", ",", " ", ".">>)
             /\ ValueOf(answer_map, IdB).text = <<"$5">>
                   => merged = TextTokens(<<"Dear", " ", "Jo", ",", " ", "you",
                                            " ", "owe", " ", "$5", ".">>)

\* the example merged once with an empty amount and once with "$5"
C19_Witness ==
    /\ mt_pc = "done"
    /\ template = DearTemplate
    /\ IdB \in DOMAIN answer_map
    /\ \/ merged = TextTokens(<<"Dear", " ", "Jo", ",", " ", ".">>)
       \/ merged = TextTokens(<<"Dear", " ", "Jo", ",", " ", "you", " ", "owe",
                                " ", "$5", ".">>)


\* C20: a [[ ... ]] section is removed only if all identifiers inside it are
\* empty: a section in which at least one identifier has a non-empty answer
\* is kept with the brackets stripped, even when other identifiers in it are
\* empty
C20_SectionRemovedOnlyIfAllEmpty ==
    (mt_pc = "done" /\ OneSectionTemplate
     /\ \E v \in SectionAnswers : ~IsValueEmpty(v))
        => \E kept \in {InsideSection,
                        ReplaceInSection(InsideSection, answer_map),
                        IdentPass(InsideSection, answer_map)} :
              merged = CollapseSpaces(BeforeSection \o kept \o AfterSection)


\* two text runs are the same up to letter case
SameRunIgnoringCase(c, d) ==
    \/ c = d
    \/ \E class \in {{"Jo", "JO"}, {"yes", "Yes", "YES"}} : c \in class /\ d \in class

\* two texts are the same up to letter case
SameIgnoringCase(x, y) ==
    /\ Len(x) = Len(y)
    /\ \A k \in 1..Len(x) : SameRunIgnoringCase(x[k], y[k])

\* the answer of the identifier of the template's first header
HeaderAnswer == ValueOf(answer_map, template[1].id).text

\* C21: {{ IF <<id>> = "lit" }}body{{ END }} is replaced by body when the
\* answer for id equals lit ignoring letter case and by the empty string
\* otherwise; the != block is its exact inverse, so of the two blocks on the
\* same id and literal exactly one keeps its body
C21_EqualityBlocks ==
    (mt_pc = "done" /\ template \in EqualityTemplates)
        => LET same == SameIgnoringCase(HeaderAnswer, template[1].lit)
           IN CASE Len(template) = 6 ->
                       merged = IF same THEN <<Txt("X")>> ELSE <<Txt("Y")>>
                [] template[1].kind = "ifeq" ->
                       merged = IF same THEN <<Txt("X")>> ELSE <<>>
                [] template[1].kind = "ifne" ->
                       merged = IF same THEN <<>> ELSE <<Txt("X")>>

\* an equality block kept for an answer that differs from the literal in
\* letter case only
C21_Witness ==
    /\ mt_pc = "done"
    /\ template = BlockTemplate("ifeq", IdB, <<"yes">>)
    /\ IdB \in DOMAIN answer_map
    /\ answer_map[IdB].text = <<"YES">>
    /\ merged = <<Txt("X")>>


\* empty as the specification defines it: absent, blank after trimming, or
\* of the bracketed shape [...]
EmptyAnswer(text) ==
    \/ text = <<>>
    \/ \A k \in 1..Len(text) : text[k] = " "
    \/ text[1] = "[" /\ text[Len(text)] = "]"

\* C22: {{ IF <<id>> }}body{{ END }} keeps body iff the answer for id is not
\* empty (absent, blank after trimming or bracketed [...]),
\* {{ IF NOT <<id>> }}body{{ END }} keeps it iff the answer is empty; of the
\* two blocks on the same identifier exactly one keeps its body
C22_ExistenceBlocks ==
    (mt_pc = "done" /\ template \in ExistenceTemplates)
        => LET empty == EmptyAnswer(HeaderAnswer)
           IN CASE Len(template) = 6 ->
                       merged = IF empty THEN <<Txt("Y")>> ELSE <<Txt("X")>>
                [] template[1].kind = "if" ->
                       merged = IF empty THEN <<>> ELSE <<Txt("X")>>
                [] template[1].kind = "ifnot" ->
                       merged = IF empty THEN <<Txt("X")>> ELSE <<>>

\* an existence block dropped for a bracketed answer
C22_Witness ==
    /\ mt_pc = "done"
    /\ template = BlockTemplate("if", IdA, <<>>)
    /\ IdA \in DOMAIN answer_map
    /\ answer_map[IdA].text = <<"[", "n/a", "]">>
    /\ merged = <<>>


\* the number of ## markers among the first k tokens of the template
CountersUpTo(k) == Cardinality({j \in 1..k : template[j].kind = "count"})

\* C23: within one merge the counter starts at 1 and the k-th ## in source
\* order is replaced by k, so the numbers are 1, 2, 3, ... without gap or
\* repetition (##-##-## merges to 1-2-3)
C23_CountersNumberFromOne ==
    (mt_pc = "done" /\ template \in CounterTemplates \cup {CounterTemplate})
        => /\ Len(merged) = Len(template)
           /\ \A k \in 1..Len(template) :
                 template[k].kind = "count"
                     => merged[k] = Txt(Digits[CountersUpTo(k)])

\* ##-##-## merged to 1-2-3
C23_Witness ==
    /\ mt_pc = "done"
    /\ template = <<CountTok, Txt("-"), CountTok, Txt("-"), CountTok>>
    /\ merged = TextTokens(<<"1", "-", "2", "-", "3">>)

\* C24: every #^. is replaced by the counter value at its position in source
\* order, the number the next ## after it receives, for every arrangement
\* of ## and #^. in the template
C24_PeekShowsCurrentCounter ==
    (mt_pc = "done" /\ template \in CounterTemplates \cup {CounterTemplate})
        => \A k \in 1..Len(template) :
              template[k].kind = "peek"
                  => /\ k <= Len(merged)
                     /\ merged[k] = Txt(Digits[CountersUpTo(k) + 1])


\* the number of ## markers among the first k tokens of a call's template
CallCountersUpTo(c, k) ==
    Cardinality({j \in 1..k : calls[c].template[j].kind = "count"})

\* C25: the counter is private to one call: in any sequence or interleaving
\* of merge calls every call numbers its own ## tokens from 1, whatever the
\* other calls have consumed
C25_CounterPrivateToCall ==
    \A c \in Calls :
        calls[c].pc = "done"
            => \A k \in 1..Len(calls[c].template) :
                  calls[c].template[k].kind = "count"
                      => calls[c].text[k] = Txt(Digits[CallCountersUpTo(c, k)])

\* a call returns 1-2 while the other call has consumed two numbers and is
\* still counting
C25_Witness ==
    /\ calls[1].pc = "count"
    /\ calls[1].counter = 3
    /\ calls[2].pc = "done"
    /\ calls[2].template = <<CountTok, Txt("-"), CountTok>>
    /\ calls[2].text = TextTokens(<<"1", "-", "2">>)


\* the answer stored under the base of the dotted identifier of the template
BaseAnswer == ValueOf(answer_map, <<template[1].id[1]>>)

\* C26: <<base.field>> yields the field's value when the answer under base is
\* a structured object that has the field, the base answer itself when that
\* answer is not a structured value and the field is name, and the empty
\* string in every other case; the literal token never stays in the text
\* (answers that are lists are left out of the statement)
C26_DottedIdentifier ==
    (mt_pc = "done" /\ template \in DottedTemplates
     /\ BaseAnswer.json \in {"absent", "invalid", "scalar", "dict"})
        => LET field == FieldName(template[1].id)
               expected ==
                   IF BaseAnswer.json = "dict"
                   THEN (IF field \in DOMAIN BaseAnswer.fields
                         THEN BaseAnswer.fields[field] ELSE <<>>)
                   ELSE IF field = <<"name">> THEN BaseAnswer.text
                   ELSE <<>>
           IN merged = CollapseSpaces(TextTokens(expected))


\* C27: a template that contains none of the merge tokens, whatever its
\* plain text and spacing, is returned unchanged for every answer map
C27_TokenFreeTemplateUnchanged ==
    (mt_pc = "done" /\ \A k \in 1..Len(template) : template[k].kind = "text")
        => merged = template


\* C28: get_session_questions is a read: for every reachable session state
\* and every page request it leaves the session's current_group_id,
\* is_completed, completed_at and the stored answers unchanged
C28_GetSessionQuestionsIsRead ==
    [][response'.kind = "questions"
          => (\A p \in PageInputs, n \in PerPageInputs :
                 get_session_questions(p, n)
                     => /\ session' = session
                        /\ session_answers' = session_answers)]_vars


\* C29: with the question groups unedited during the session, after any
\* sequence of create_session, submit_answers and navigate_session calls the
\* current_group_id of a session that is not completed refers to an
\* existing, active (not soft-deleted) question group
C29_CurrentGroupIsActive ==
    (session.exists /\ ~session.is_completed)
        => /\ session.current_group_id \in GroupIds
           /\ question_groups[session.current_group_id].is_active


\* C30: the next group chosen by submit_answers depends only on the stored
\* answers after the submission is persisted: once save_answers has stored
\* the answers A, submit_answers with an empty list leads to the same
\* current_group_id and is_completed as submit_answers carrying A would have
C30_SubmitDependsOnStoredAnswers ==
    [][\A a \in AnswerLists :
          (save_answers(a) /\ session.current_group_id \in DOMAIN question_groups)
              => GetNextGroup(question_groups, session'.current_group_id, <<>>)
                    = GetNextGroup(question_groups, session.current_group_id, a)]_vars

====
